---- MODULE Spec2Model ----
(***************************************************************************)
(* AL_Excel.Coordinates: Index, Coordinate, the three regular expressions  *)
(* (FULLRE, COLUMNRE, ROWRE), converttotuple, parseindex, parsecoordregex  *)
(* and addindices.                                                         *)
(*                                                                         *)
(* Python values are tagged records:                                       *)
(*   None            [t |-> "None"]                                        *)
(*   an int          [t |-> "int",  v |-> n]                               *)
(*   a bool          [t |-> "bool", v |-> b]                               *)
(*   a str           [t |-> "str",  v |-> <<"A", "1">>]  (its characters)  *)
(*   a tuple / list  [t |-> "seq",  v |-> <<x, y>>]                        *)
(*   an Index        [t |-> "Index", type, value, absolute]                *)
(*   a Coordinate    [t |-> "Coordinate", _row, _column]                   *)
(* A call's outcome is Return(value) or Raise(exception class, message).   *)
(***************************************************************************)
EXTENDS Integers, Sequences, FiniteSets, TLC

VARIABLES self, op, args, ret

vars == <<self, op, args, ret>>

----------------------------------------------------------------------------
(* Python values *)

None == [t |-> "None"]
PyInt(n) == [t |-> "int", v |-> n]
PyBool(b) == [t |-> "bool", v |-> b]
PyStr(s) == [t |-> "str", v |-> s]
PyTuple(s) == [t |-> "seq", v |-> s]

\* class Index(typing.NamedTuple): type is "row", "column" or "None" (Python's
\* None), value is None or PyInt(n), absolute is a boolean.
Index(type, value, absolute) ==
    [t |-> "Index", type |-> type, value |-> value, absolute |-> absolute]

Return(v) == [exc |-> "", v |-> v]
Raise(exc, msg) == [exc |-> exc, msg |-> msg]
Raised(r) == r.exc # ""

----------------------------------------------------------------------------
(* Characters *)

Digits == <<"0", "1", "2", "3", "4", "5", "6", "7", "8", "9">>
Upper == <<"A", "B", "C", "D", "E", "F", "G", "H", "I", "J", "K", "L", "M",
           "N", "O", "P", "Q", "R", "S", "T", "U", "V", "W", "X", "Y", "Z">>
Lower == <<"a", "b", "c", "d", "e", "f", "g", "h", "i", "j", "k", "l", "m",
           "n", "o", "p", "q", "r", "s", "t", "u", "v", "w", "x", "y", "z">>

\* The position of c in seq, 0 when it is not there.
IndexOf(seq, c) ==
    IF \E i \in 1..Len(seq) : seq[i] = c
    THEN CHOOSE i \in 1..Len(seq) : seq[i] = c
    ELSE 0

\* A character outside ASCII is written "U+" and its code point in
\* hexadecimal: "U+0661" is ARABIC-INDIC DIGIT ONE.
\*
\* The patterns are str patterns compiled without re.ASCII, so \d is every
\* decimal digit of Unicode (category Nd), which int() converts as well.  Each
\* row holds the digits 0 to 9 of one script.
UnicodeDigits == <<
    <<"U+0660", "U+0661", "U+0662", "U+0663", "U+0664", "U+0665", "U+0666", "U+0667", "U+0668", "U+0669">>,
    <<"U+06F0", "U+06F1", "U+06F2", "U+06F3", "U+06F4", "U+06F5", "U+06F6", "U+06F7", "U+06F8", "U+06F9">>,
    <<"U+07C0", "U+07C1", "U+07C2", "U+07C3", "U+07C4", "U+07C5", "U+07C6", "U+07C7", "U+07C8", "U+07C9">>,
    <<"U+0966", "U+0967", "U+0968", "U+0969", "U+096A", "U+096B", "U+096C", "U+096D", "U+096E", "U+096F">>,
    <<"U+09E6", "U+09E7", "U+09E8", "U+09E9", "U+09EA", "U+09EB", "U+09EC", "U+09ED", "U+09EE", "U+09EF">>,
    <<"U+0A66", "U+0A67", "U+0A68", "U+0A69", "U+0A6A", "U+0A6B", "U+0A6C", "U+0A6D", "U+0A6E", "U+0A6F">>,
    <<"U+0AE6", "U+0AE7", "U+0AE8", "U+0AE9", "U+0AEA", "U+0AEB", "U+0AEC", "U+0AED", "U+0AEE", "U+0AEF">>,
    <<"U+0B66", "U+0B67", "U+0B68", "U+0B69", "U+0B6A", "U+0B6B", "U+0B6C", "U+0B6D", "U+0B6E", "U+0B6F">>,
    <<"U+0BE6", "U+0BE7", "U+0BE8", "U+0BE9", "U+0BEA", "U+0BEB", "U+0BEC", "U+0BED", "U+0BEE", "U+0BEF">>,
    <<"U+0C66", "U+0C67", "U+0C68", "U+0C69", "U+0C6A", "U+0C6B", "U+0C6C", "U+0C6D", "U+0C6E", "U+0C6F">>,
    <<"U+0CE6", "U+0CE7", "U+0CE8", "U+0CE9", "U+0CEA", "U+0CEB", "U+0CEC", "U+0CED", "U+0CEE", "U+0CEF">>,
    <<"U+0D66", "U+0D67", "U+0D68", "U+0D69", "U+0D6A", "U+0D6B", "U+0D6C", "U+0D6D", "U+0D6E", "U+0D6F">>,
    <<"U+0DE6", "U+0DE7", "U+0DE8", "U+0DE9", "U+0DEA", "U+0DEB", "U+0DEC", "U+0DED", "U+0DEE", "U+0DEF">>,
    <<"U+0E50", "U+0E51", "U+0E52", "U+0E53", "U+0E54", "U+0E55", "U+0E56", "U+0E57", "U+0E58", "U+0E59">>,
    <<"U+0ED0", "U+0ED1", "U+0ED2", "U+0ED3", "U+0ED4", "U+0ED5", "U+0ED6", "U+0ED7", "U+0ED8", "U+0ED9">>,
    <<"U+0F20", "U+0F21", "U+0F22", "U+0F23", "U+0F24", "U+0F25", "U+0F26", "U+0F27", "U+0F28", "U+0F29">>,
    <<"U+1040", "U+1041", "U+1042", "U+1043", "U+1044", "U+1045", "U+1046", "U+1047", "U+1048", "U+1049">>,
    <<"U+1090", "U+1091", "U+1092", "U+1093", "U+1094", "U+1095", "U+1096", "U+1097", "U+1098", "U+1099">>,
    <<"U+17E0", "U+17E1", "U+17E2", "U+17E3", "U+17E4", "U+17E5", "U+17E6", "U+17E7", "U+17E8", "U+17E9">>,
    <<"U+1810", "U+1811", "U+1812", "U+1813", "U+1814", "U+1815", "U+1816", "U+1817", "U+1818", "U+1819">>,
    <<"U+1946", "U+1947", "U+1948", "U+1949", "U+194A", "U+194B", "U+194C", "U+194D", "U+194E", "U+194F">>,
    <<"U+19D0", "U+19D1", "U+19D2", "U+19D3", "U+19D4", "U+19D5", "U+19D6", "U+19D7", "U+19D8", "U+19D9">>,
    <<"U+1A80", "U+1A81", "U+1A82", "U+1A83", "U+1A84", "U+1A85", "U+1A86", "U+1A87", "U+1A88", "U+1A89">>,
    <<"U+1A90", "U+1A91", "U+1A92", "U+1A93", "U+1A94", "U+1A95", "U+1A96", "U+1A97", "U+1A98", "U+1A99">>,
    <<"U+1B50", "U+1B51", "U+1B52", "U+1B53", "U+1B54", "U+1B55", "U+1B56", "U+1B57", "U+1B58", "U+1B59">>,
    <<"U+1BB0", "U+1BB1", "U+1BB2", "U+1BB3", "U+1BB4", "U+1BB5", "U+1BB6", "U+1BB7", "U+1BB8", "U+1BB9">>,
    <<"U+1C40", "U+1C41", "U+1C42", "U+1C43", "U+1C44", "U+1C45", "U+1C46", "U+1C47", "U+1C48", "U+1C49">>,
    <<"U+1C50", "U+1C51", "U+1C52", "U+1C53", "U+1C54", "U+1C55", "U+1C56", "U+1C57", "U+1C58", "U+1C59">>,
    <<"U+A620", "U+A621", "U+A622", "U+A623", "U+A624", "U+A625", "U+A626", "U+A627", "U+A628", "U+A629">>,
    <<"U+A8D0", "U+A8D1", "U+A8D2", "U+A8D3", "U+A8D4", "U+A8D5", "U+A8D6", "U+A8D7", "U+A8D8", "U+A8D9">>,
    <<"U+A900", "U+A901", "U+A902", "U+A903", "U+A904", "U+A905", "U+A906", "U+A907", "U+A908", "U+A909">>,
    <<"U+A9D0", "U+A9D1", "U+A9D2", "U+A9D3", "U+A9D4", "U+A9D5", "U+A9D6", "U+A9D7", "U+A9D8", "U+A9D9">>,
    <<"U+A9F0", "U+A9F1", "U+A9F2", "U+A9F3", "U+A9F4", "U+A9F5", "U+A9F6", "U+A9F7", "U+A9F8", "U+A9F9">>,
    <<"U+AA50", "U+AA51", "U+AA52", "U+AA53", "U+AA54", "U+AA55", "U+AA56", "U+AA57", "U+AA58", "U+AA59">>,
    <<"U+ABF0", "U+ABF1", "U+ABF2", "U+ABF3", "U+ABF4", "U+ABF5", "U+ABF6", "U+ABF7", "U+ABF8", "U+ABF9">>,
    <<"U+FF10", "U+FF11", "U+FF12", "U+FF13", "U+FF14", "U+FF15", "U+FF16", "U+FF17", "U+FF18", "U+FF19">>,
    <<"U+104A0", "U+104A1", "U+104A2", "U+104A3", "U+104A4", "U+104A5", "U+104A6", "U+104A7", "U+104A8", "U+104A9">>,
    <<"U+10D30", "U+10D31", "U+10D32", "U+10D33", "U+10D34", "U+10D35", "U+10D36", "U+10D37", "U+10D38", "U+10D39">>,
    <<"U+11066", "U+11067", "U+11068", "U+11069", "U+1106A", "U+1106B", "U+1106C", "U+1106D", "U+1106E", "U+1106F">>,
    <<"U+110F0", "U+110F1", "U+110F2", "U+110F3", "U+110F4", "U+110F5", "U+110F6", "U+110F7", "U+110F8", "U+110F9">>,
    <<"U+11136", "U+11137", "U+11138", "U+11139", "U+1113A", "U+1113B", "U+1113C", "U+1113D", "U+1113E", "U+1113F">>,
    <<"U+111D0", "U+111D1", "U+111D2", "U+111D3", "U+111D4", "U+111D5", "U+111D6", "U+111D7", "U+111D8", "U+111D9">>,
    <<"U+112F0", "U+112F1", "U+112F2", "U+112F3", "U+112F4", "U+112F5", "U+112F6", "U+112F7", "U+112F8", "U+112F9">>,
    <<"U+11450", "U+11451", "U+11452", "U+11453", "U+11454", "U+11455", "U+11456", "U+11457", "U+11458", "U+11459">>,
    <<"U+114D0", "U+114D1", "U+114D2", "U+114D3", "U+114D4", "U+114D5", "U+114D6", "U+114D7", "U+114D8", "U+114D9">>,
    <<"U+11650", "U+11651", "U+11652", "U+11653", "U+11654", "U+11655", "U+11656", "U+11657", "U+11658", "U+11659">>,
    <<"U+116C0", "U+116C1", "U+116C2", "U+116C3", "U+116C4", "U+116C5", "U+116C6", "U+116C7", "U+116C8", "U+116C9">>,
    <<"U+11730", "U+11731", "U+11732", "U+11733", "U+11734", "U+11735", "U+11736", "U+11737", "U+11738", "U+11739">>,
    <<"U+118E0", "U+118E1", "U+118E2", "U+118E3", "U+118E4", "U+118E5", "U+118E6", "U+118E7", "U+118E8", "U+118E9">>,
    <<"U+11950", "U+11951", "U+11952", "U+11953", "U+11954", "U+11955", "U+11956", "U+11957", "U+11958", "U+11959">>,
    <<"U+11C50", "U+11C51", "U+11C52", "U+11C53", "U+11C54", "U+11C55", "U+11C56", "U+11C57", "U+11C58", "U+11C59">>,
    <<"U+11D50", "U+11D51", "U+11D52", "U+11D53", "U+11D54", "U+11D55", "U+11D56", "U+11D57", "U+11D58", "U+11D59">>,
    <<"U+11DA0", "U+11DA1", "U+11DA2", "U+11DA3", "U+11DA4", "U+11DA5", "U+11DA6", "U+11DA7", "U+11DA8", "U+11DA9">>,
    <<"U+16A60", "U+16A61", "U+16A62", "U+16A63", "U+16A64", "U+16A65", "U+16A66", "U+16A67", "U+16A68", "U+16A69">>,
    <<"U+16AC0", "U+16AC1", "U+16AC2", "U+16AC3", "U+16AC4", "U+16AC5", "U+16AC6", "U+16AC7", "U+16AC8", "U+16AC9">>,
    <<"U+16B50", "U+16B51", "U+16B52", "U+16B53", "U+16B54", "U+16B55", "U+16B56", "U+16B57", "U+16B58", "U+16B59">>,
    <<"U+1D7CE", "U+1D7CF", "U+1D7D0", "U+1D7D1", "U+1D7D2", "U+1D7D3", "U+1D7D4", "U+1D7D5", "U+1D7D6", "U+1D7D7">>,
    <<"U+1D7D8", "U+1D7D9", "U+1D7DA", "U+1D7DB", "U+1D7DC", "U+1D7DD", "U+1D7DE", "U+1D7DF", "U+1D7E0", "U+1D7E1">>,
    <<"U+1D7E2", "U+1D7E3", "U+1D7E4", "U+1D7E5", "U+1D7E6", "U+1D7E7", "U+1D7E8", "U+1D7E9", "U+1D7EA", "U+1D7EB">>,
    <<"U+1D7EC", "U+1D7ED", "U+1D7EE", "U+1D7EF", "U+1D7F0", "U+1D7F1", "U+1D7F2", "U+1D7F3", "U+1D7F4", "U+1D7F5">>,
    <<"U+1D7F6", "U+1D7F7", "U+1D7F8", "U+1D7F9", "U+1D7FA", "U+1D7FB", "U+1D7FC", "U+1D7FD", "U+1D7FE", "U+1D7FF">>,
    <<"U+1E140", "U+1E141", "U+1E142", "U+1E143", "U+1E144", "U+1E145", "U+1E146", "U+1E147", "U+1E148", "U+1E149">>,
    <<"U+1E2F0", "U+1E2F1", "U+1E2F2", "U+1E2F3", "U+1E2F4", "U+1E2F5", "U+1E2F6", "U+1E2F7", "U+1E2F8", "U+1E2F9">>,
    <<"U+1E950", "U+1E951", "U+1E952", "U+1E953", "U+1E954", "U+1E955", "U+1E956", "U+1E957", "U+1E958", "U+1E959">>,
    <<"U+1FBF0", "U+1FBF1", "U+1FBF2", "U+1FBF3", "U+1FBF4", "U+1FBF5", "U+1FBF6", "U+1FBF7", "U+1FBF8", "U+1FBF9">>>>

NonASCIIDigits ==
    UNION {{UnicodeDigits[script][i] : i \in 1..10} : script \in 1..Len(UnicodeDigits)}

\* Under re.IGNORECASE the class [A-Z] also holds the four characters whose
\* case folding is an ASCII letter: LATIN CAPITAL LETTER I WITH DOT ABOVE,
\* LATIN SMALL LETTER DOTLESS I, LATIN SMALL LETTER LONG S and KELVIN SIGN.
FoldedLetters == {"U+0130", "U+0131", "U+017F", "U+212A"}

\* \d
IsDigit(c) == IndexOf(Digits, c) # 0 \/ c \in NonASCIIDigits
\* [A-Z] under re.IGNORECASE
IsLetter(c) == IndexOf(Upper, c) # 0 \/ IndexOf(Lower, c) # 0 \/ c \in FoldedLetters
\* A literal letter of a pattern under re.IGNORECASE.
IsChar(c, L) == c = L \/ (IndexOf(Upper, L) # 0 /\ IndexOf(Lower, c) = IndexOf(Upper, L))

\* The value int() gives a decimal digit.
DigitValue(c) ==
    IF IndexOf(Digits, c) # 0 THEN IndexOf(Digits, c) - 1
    ELSE CHOOSE n \in 0..9 : \E script \in 1..Len(UnicodeDigits) : UnicodeDigits[script][n + 1] = c

\* str.upper() of one character that [A-Z] matches under re.IGNORECASE:
\* dotless i becomes I and long s becomes S; I with dot above and KELVIN SIGN
\* are upper case already.
upper(c) ==
    IF IndexOf(Lower, c) # 0 THEN Upper[IndexOf(Lower, c)]
    ELSE IF c = "U+0131" THEN "I"
    ELSE IF c = "U+017F" THEN "S"
    ELSE c

\* The 1-based number of a letter, either case (A=1 .. Z=26).
LetterNumber(c) == IndexOf(Upper, upper(c))

\* s[i] or "" past the end of s.
At(s, i) == IF i >= 1 /\ i <= Len(s) THEN s[i] ELSE ""

\* The text s[from .. to-1].
Slice(s, from, to) == IF to <= from THEN <<>> ELSE SubSeq(s, from, to - 1)

\* The first position at or after i where s has no digit (\d+ is greedy).
RECURSIVE SkipDigits(_, _)
SkipDigits(s, i) == IF IsDigit(At(s, i)) THEN SkipDigits(s, i + 1) ELSE i

\* The first position at or after i where s has no letter ([A-Z]+ is greedy).
RECURSIVE SkipLetters(_, _)
SkipLetters(s, i) == IF IsLetter(At(s, i)) THEN SkipLetters(s, i + 1) ELSE i

\* The value of a run of decimal digits.
RECURSIVE DigitsValue(_)
DigitsValue(s) ==
    IF s = <<>> THEN 0
    ELSE 10 * DigitsValue(SubSeq(s, 1, Len(s) - 1)) + DigitValue(s[Len(s)])

\* int(text) for text matching -?\d+
int(s) == IF At(s, 1) = "-" THEN 0 - DigitsValue(Tail(s)) ELSE DigitsValue(s)

\* str(n) for an integer n
RECURSIVE NatStr(_)
NatStr(n) == IF n < 10 THEN <<Digits[n + 1]>> ELSE NatStr(n \div 10) \o <<Digits[(n % 10) + 1]>>
str(n) == IF n < 0 THEN <<"-">> \o NatStr(0 - n) ELSE NatStr(n)

----------------------------------------------------------------------------
(* openpyxl.utils.cell *)

\* The base-26 number of a run of letters (A=1 .. Z=26, AA=27 ..).
RECURSIVE LettersValue(_)
LettersValue(s) ==
    IF s = <<>> THEN 0
    ELSE 26 * LettersValue(SubSeq(s, 1, Len(s) - 1)) + LetterNumber(s[Len(s)])

\* The letters of a column index >= 1.
RECURSIVE ColumnLetters(_)
ColumnLetters(n) ==
    IF n <= 0 THEN <<>>
    ELSE ColumnLetters((n - 1) \div 26) \o <<Upper[((n - 1) % 26) + 1]>>

\* utils.cell.column_index_from_string
column_index_from_string(s) ==
    IF Len(s) >= 1 /\ Len(s) <= 3 /\ \A i \in 1..Len(s) : IndexOf(Upper, upper(s[i])) # 0
    THEN Return(LettersValue(s))
    ELSE Raise("ValueError", "not a valid column name")

\* An Index value as a number: a bool is an int, True being 1 and False 0.
number(value) == IF value.t = "bool" THEN (IF value.v THEN 1 ELSE 0) ELSE value.v

\* utils.cell.get_column_letter: the range test 1 <= col_idx <= 18278 comes
\* first, and comparing an int with None is a TypeError.  (Earlier releases
\* of the library look col_idx up in a table instead and raise ValueError for
\* None; for every other value the two agree.)
get_column_letter(col_idx) ==
    IF col_idx = None
    THEN Raise("TypeError", "'<=' not supported between instances of 'int' and 'NoneType'")
    ELSE IF number(col_idx) >= 1 /\ number(col_idx) <= 18278
    THEN Return(ColumnLetters(number(col_idx)))
    ELSE Raise("ValueError", "Invalid column index")

----------------------------------------------------------------------------
(* The regular expressions.  A match is a record of the named groups the   *)
(* code reads; a group that did not take part in the match is None.        *)

NoMatch == [matched |-> FALSE]

\* R or C, \[?, -?\d+, \]? tried at position i of s: the relative-offset token.
\* \[? and \d+ are greedy and nothing after them can make them give back.
MatchRCAt(s, i, L) ==
    LET ob == IF At(s, i + 1) = "[" THEN 1 ELSE 0
        n0 == i + 1 + ob
        d0 == IF At(s, n0) = "-" THEN n0 + 1 ELSE n0
        d1 == SkipDigits(s, d0)
        cb == IF At(s, d1) = "]" THEN 1 ELSE 0
    IN  [ok |-> IsChar(At(s, i), L) /\ d1 > d0,
         absolute1 |-> Slice(s, i + 1, n0),
         id |-> Slice(s, n0, d1),
         absolute2 |-> Slice(s, d1, d1 + cb),
         end |-> d1 + cb]

\* \$? then [A-Z]+ (letters) or \d+ (digits) tried at position i of s.
MatchA1At(s, i, letters) ==
    LET dl == IF At(s, i) = "$" THEN 1 ELSE 0
        e  == IF letters THEN SkipLetters(s, i + dl) ELSE SkipDigits(s, i + dl)
    IN  [ok |-> e > i + dl,
         absolute |-> Slice(s, i, i + dl),
         id |-> Slice(s, i + dl, e),
         end |-> e]

\* The groups of COLUMNRE / ROWRE when the search is at position i: rc is the
\* R1C1 alternative tried there and a1 the A1 alternative; when both fail the
\* search moves on to i + 1.
RECURSIVE AxisSearch(_, _, _, _)
AxisGroups(s, i, L, letters, rc, a1) ==
    IF rc.ok
    THEN [matched |-> TRUE, absolute1 |-> PyStr(rc.absolute1), RC |-> PyStr(rc.id),
          absolute2 |-> PyStr(rc.absolute2), absolute |-> None, A1 |-> None]
    ELSE IF a1.ok
    THEN [matched |-> TRUE, absolute1 |-> None, RC |-> None, absolute2 |-> None,
          absolute |-> PyStr(a1.absolute), A1 |-> PyStr(a1.id)]
    ELSE AxisSearch(s, i + 1, L, letters)

\* COLUMNRE.search / ROWRE.search: the leftmost position where the R1C1
\* alternative or, failing that, the A1 alternative matches.
AxisSearch(s, i, L, letters) ==
    IF i > Len(s) THEN NoMatch
    ELSE AxisGroups(s, i, L, letters, MatchRCAt(s, i, L), MatchA1At(s, i, letters))

COLUMNRE(value) == AxisSearch(value, 1, "C", TRUE)
ROWRE(value) == AxisSearch(value, 1, "R", FALSE)

\* $ without re.MULTILINE: position i is the end of s, or is just before a
\* newline that is the last character of s.
AtEnd(s, i) == i = Len(s) + 1 \/ (i = Len(s) /\ s[i] = "\n")

\* The groups of FULLRE: r and c are the row and column tokens of the RC
\* alternative, ac and ar the column and row tokens of the A1 alternative.
FULLREGroups(value, r, c, ac, ar) ==
    IF r.ok /\ c.ok /\ AtEnd(value, c.end)
    THEN [matched |-> TRUE, RC |-> PyStr(Slice(value, 1, c.end)),
          RCrow |-> PyStr(Slice(value, 1, r.end)),
          RCcolumn |-> PyStr(Slice(value, r.end, c.end)),
          A1row |-> None, A1column |-> None]
    ELSE IF ac.ok /\ ar.ok /\ AtEnd(value, ar.end)
    THEN [matched |-> TRUE, RC |-> None, RCrow |-> None, RCcolumn |-> None,
          A1row |-> PyStr(Slice(value, ac.end, ar.end)),
          A1column |-> PyStr(Slice(value, 1, ac.end))]
    ELSE NoMatch

\* The second token of each alternative starts where the first one ends.
FULLRETokens(value, r, ac) ==
    FULLREGroups(value, r, MatchRCAt(value, r.end, "C"), ac, MatchA1At(value, ac.end, FALSE))

\* FULLRE.search: the whole text is R<row>C<column> or <column><row>.
FULLRE(value) == FULLRETokens(value, MatchRCAt(value, 1, "R"), MatchA1At(value, 1, TRUE))

\* bool(x) of a group: None and "" are false.
Truthy(g) == g # None /\ g.v # <<>>

----------------------------------------------------------------------------
(* parsecoordregex(value, colrow): value is the text, colrow "column" or "row" *)

\* Lines 322-337 without the bracket check of lines 332-335.
parsematch_nocheck(regex, colrow) ==
    IF ~regex.matched
    THEN Raise("ValueError", "String does not match any identifiable patterns")
    ELSE IF Truthy(regex.A1)
    THEN LET index == IF colrow = "column"
                      THEN column_index_from_string(regex.A1.v)
                      ELSE Return(int(regex.A1.v))
         IN  IF Raised(index) THEN index
             ELSE Return(Index(colrow, PyInt(index.v), Truthy(regex.absolute)))
    ELSE Return(Index(colrow, PyInt(int(regex.RC.v)),
                      Truthy(regex.absolute1) /\ Truthy(regex.absolute2)))

\* Lines 322-337 with the A1 branch reading the group absolute1 (None in an
\* A1 match) instead of the group absolute at line 328.
parsematch_absolute1(regex, colrow) ==
    IF ~regex.matched
    THEN Raise("ValueError", "String does not match any identifiable patterns")
    ELSE IF Truthy(regex.A1)
    THEN LET index == IF colrow = "column"
                      THEN column_index_from_string(regex.A1.v)
                      ELSE Return(int(regex.A1.v))
         IN  IF Raised(index) THEN index
             ELSE Return(Index(colrow, PyInt(index.v), Truthy(regex.absolute1)))
    ELSE LET abs1 == Truthy(regex.absolute1)
             abs2 == Truthy(regex.absolute2)
         IN  IF abs1 # abs2
             THEN Raise("SyntaxError", IF abs1 THEN "missing ]" ELSE "missing [")
             ELSE Return(Index(colrow, PyInt(int(regex.RC.v)), abs1 /\ abs2))

\* Lines 322-337: regex is what COLUMNRE.search or ROWRE.search returned.
parsematch(regex, colrow) ==
    IF ~regex.matched
    THEN Raise("ValueError", "String does not match any identifiable patterns")
    ELSE IF Truthy(regex.A1)
    THEN LET index == IF colrow = "column"
                      THEN column_index_from_string(regex.A1.v)
                      ELSE Return(int(regex.A1.v))
         IN  IF Raised(index) THEN index
             ELSE Return(Index(colrow, PyInt(index.v), Truthy(regex.absolute)))
    ELSE LET abs1 == Truthy(regex.absolute1)
             abs2 == Truthy(regex.absolute2)
         IN  IF abs1 # abs2
             THEN Raise("SyntaxError", IF abs1 THEN "missing ]" ELSE "missing [")
             ELSE Return(Index(colrow, PyInt(int(regex.RC.v)), abs1 /\ abs2))

parsecoordregex(value, colrow) ==
    IF colrow \notin {"column", "row"}
    THEN Raise("ValueError", "parsecoordregex must be 'column' or 'row'")
    ELSE parsematch(IF colrow = "column" THEN COLUMNRE(value) ELSE ROWRE(value), colrow)

----------------------------------------------------------------------------
(* parseindex(value) *)

\* absolute.lower() == alias (lines 287-291), alias being "$", "absolute" or
\* "".  str.lower() turns A to Z into a to z and leaves the other ASCII
\* characters as they are; outside ASCII the only characters with an ASCII
\* character in their lower case are KELVIN SIGN (k) and I WITH DOT ABOVE (i
\* and COMBINING DOT ABOVE), neither k nor i is in an alias, and no character
\* has an empty lower case.  So the lowered text is the alias exactly when the
\* text has the alias' length and each character is the alias' character or
\* its ASCII capital.
lowerequals(absolute, alias) ==
    /\ Len(absolute) = Len(alias)
    /\ \A i \in 1..Len(alias) :
            \/ absolute[i] = alias[i]
            \/ IndexOf(Lower, alias[i]) # 0 /\ IndexOf(Upper, absolute[i]) = IndexOf(Lower, alias[i])

\* absoluteoverride without the lower() of line 287.
absoluteoverride_cased(absolute) ==
    LET resolved ==
            IF absolute.t = "str"
            THEN IF absolute.v \in {<<"$">>, <<"a", "b", "s", "o", "l", "u", "t", "e">>}
                 THEN Return(PyBool(TRUE))
                 ELSE IF absolute.v = <<>>
                 THEN Return(PyBool(FALSE))
                 ELSE Raise("ValueError", "Coordinate part's second index is an unknown string")
            ELSE Return(absolute)
    IN  IF Raised(resolved) THEN resolved
        ELSE IF resolved.v.t = "bool" THEN Return(resolved.v.v)
        ELSE IF resolved.v.t = "int" /\ resolved.v.v \in {0, 1} THEN Return(resolved.v.v = 1)
        ELSE Raise("ValueError", "Coordinate part's second index must be True or False, or an accepted alias")

\* The second element of an (index, absolute) sequence: aliases resolved
\* (lines 286-292), then the membership test of line 294.  0 == False and
\* 1 == True in Python, so the accepted values are returned as booleans.
absoluteoverride(absolute) ==
    LET resolved ==
            IF absolute.t = "str"
            THEN IF \/ lowerequals(absolute.v, <<"$">>)
                    \/ lowerequals(absolute.v, <<"a", "b", "s", "o", "l", "u", "t", "e">>)
                 THEN Return(PyBool(TRUE))
                 ELSE IF lowerequals(absolute.v, <<>>)
                 THEN Return(PyBool(FALSE))
                 ELSE Raise("ValueError", "Coordinate part's second index is an unknown string")
            ELSE Return(absolute)
    IN  IF Raised(resolved) THEN resolved
        ELSE IF resolved.v.t = "bool" THEN Return(resolved.v.v)
        ELSE IF resolved.v.t = "int" /\ resolved.v.v \in {0, 1} THEN Return(resolved.v.v = 1)
        ELSE Raise("ValueError", "Coordinate part's second index must be True or False, or an accepted alias")

\* An Index given as a descriptor is validated field by field (lines 269-275).
validateindex(value) ==
    IF value.type \notin {"row", "column", "None"}
    THEN Raise("ValueError", "Index's type should be 'row','column', or None")
    ELSE IF value.value.t \notin {"int", "bool", "None"}
    THEN Raise("ValueError", "Index's value is not an integer (or None)")
    ELSE IF value.absolute \notin BOOLEAN
    THEN Raise("ValueError", "Index's absolute value is not True or False")
    ELSE Return(value)

\* try: return first / except: return second (lines 262-265)
orelse(first, second) == IF Raised(first) THEN second ELSE first

\* Lines 284-302 without the collision check of lines 299-300.
override_nocheck(index, absolute) ==
    IF Raised(absolute) THEN absolute
    ELSE Return(Index(index.type, index.value, absolute.v))

\* Lines 284-302: index is the Index of value[0], absolute the outcome of
\* reading value[1].
override(index, absolute) ==
    IF Raised(absolute) THEN absolute
    ELSE IF index.absolute /\ ~absolute.v
    THEN Raise("ValueError", "Coordinate part's second index contradicts the first")
    ELSE Return(Index(index.type, index.value, absolute.v))

\* Lines 282-303: index is the outcome of parseindex(value[0]).
parsesequence(value, index) ==
    IF Raised(index) \/ Len(value.v) # 2 THEN index
    ELSE override(index.v, absoluteoverride(value.v[2]))

RECURSIVE parseindex(_)
parseindex(value) ==
    IF value.t = "None" THEN Return(Index("None", None, FALSE))
    ELSE IF value.t = "int" THEN Return(Index("None", value, TRUE))
    ELSE IF value.t = "str"
    THEN orelse(parsecoordregex(value.v, "column"), parsecoordregex(value.v, "row"))
    ELSE IF value.t = "Index" THEN validateindex(value)
    ELSE IF value.t = "seq"
    THEN IF Len(value.v) > 2
         THEN Raise("ValueError", "Coordinate part's length should be 1 or 2 (index,[absolute])")
         ELSE IF Len(value.v) = 0
         THEN Raise("IndexError", "tuple index out of range")
         ELSE parsesequence(value, parseindex(value.v[1]))
    ELSE Raise("ValueError", "Coordinate part is not a recognized format")

----------------------------------------------------------------------------
(* converttotuple(value) *)

\* Order than Coordinates should be displayed
COORDINATEORDER == <<"row", "column">>

\* namedtuple._replace(type = ...)
replacetype(index, type) == [index EXCEPT !.type = type]

\* return row,column once both parsecoordregex calls have returned.
rowcolumn(row, column) ==
    IF Raised(row) THEN row
    ELSE IF Raised(column) THEN column
    ELSE Return(<<row.v, column.v>>)

\* Lines 157-163: regex is what FULLRE.search returned.
convertmatch(regex) ==
    IF ~regex.matched THEN Raise("TypeError", "Invalid coordinates")
    ELSE rowcolumn(parsecoordregex(IF Truthy(regex.RC) THEN regex.RCrow.v
                                   ELSE regex.A1row.v, "row"),
                   parsecoordregex(IF Truthy(regex.RC) THEN regex.RCcolumn.v
                                   ELSE regex.A1column.v, "column"))

\* The text branch (lines 155-163).
converttext(value) == convertmatch(FULLRE(value))

\* convertsingle with the Index that has a value always put first.
convertsingle_valuefirst(indices) ==
    IF indices[1].value # None THEN indices ELSE <<indices[2], indices[1]>>

\* One of the two values is None (lines 177-193).  The retagged copy of an
\* untyped goodindex is bound to the local name only; the list is returned as
\* it is, or with its two elements swapped.
convertsingle(indices) ==
    LET goodind == IF indices[1].value # None THEN 0 ELSE 1
        goodindex == indices[goodind + 1]
    IN  IF goodindex.type = "None" THEN indices
        ELSE IF goodindex.type # COORDINATEORDER[goodind + 1]
        THEN <<indices[2], indices[1]>>
        ELSE indices

\* convertrows without the tie-break: two rows are always a duplicate.
convertrows_strict(indices) == Raise("ValueError", "Duplicated Arguments")

\* Both are rows (lines 206-215).
convertrows(indices) ==
    IF indices[1].absolute /\ ~indices[2].absolute
    THEN Return(<<indices[1], replacetype(indices[2], "column")>>)
    ELSE IF indices[2].absolute /\ ~indices[1].absolute
    THEN Return(<<indices[1], replacetype(indices[1], "column")>>)
    ELSE IF ~indices[1].absolute /\ ~indices[2].absolute
    THEN Return(<<indices[1], replacetype(indices[2], "column")>>)
    ELSE Raise("ValueError", "Duplicated Arguments")

\* Lines 219-235: the row, the column and the untyped ones among indices.
convertbuckets(indices) ==
    LET row == SelectSeq(indices, LAMBDA index : index.type = "row")
        column == SelectSeq(indices, LAMBDA index : index.type = "column")
        ambiguous == SelectSeq(indices, LAMBDA index : index.type = "None")
    IN  IF row # <<>> /\ column = <<>>
        THEN <<row[1], replacetype(ambiguous[1], "column")>>
        ELSE IF column # <<>> /\ row = <<>>
        THEN <<replacetype(ambiguous[1], "row"), column[1]>>
        ELSE <<row[1], column[1]>>

\* Both rows, retagged (or not), go on to lines 219-235.
convertretagged(retagged) ==
    IF Raised(retagged) THEN retagged ELSE Return(convertbuckets(retagged.v))

\* Lines 171-235: indices is the list of the two parsed Index values.
convertindices(indices) ==
    LET nonindices == SelectSeq(indices, LAMBDA index : index.value = None)
    IN  IF Len(nonindices) >= 2 THEN Raise("ValueError", "No Indicies provided")
        ELSE IF nonindices # <<>> THEN Return(convertsingle(indices))
        ELSE IF indices[1].type = "None" /\ indices[2].type = "None"
        THEN Return(<<replacetype(indices[1], "row"), replacetype(indices[2], "column")>>)
        ELSE IF indices[1].type = indices[2].type
        THEN IF indices[1].type = "row" /\ indices[2].type = "row"
             THEN convertretagged(convertrows(indices))
             ELSE Raise("ValueError", "Duplicated Arguments")
        ELSE Return(convertbuckets(indices))

\* Line 169: index1 and index2 are the outcomes of the two parseindex calls.
convertparsed(index1, index2) ==
    IF Raised(index1) THEN index1
    ELSE IF Raised(index2) THEN index2
    ELSE convertindices(<<index1.v, index2.v>>)

converttotuple(value) ==
    IF value.t = "str" THEN converttext(value.v)
    ELSE IF value.t # "seq" \/ Len(value.v) # 2
    THEN Raise("TypeError", "Cooridinates must be Coordinate-Formatted string or a tuple")
    ELSE convertparsed(parseindex(value.v[1]), parseindex(value.v[2]))

----------------------------------------------------------------------------
(* class Coordinate *)

\* The default of __init__'s column parameter.
False == PyBool(FALSE)

\* except Exception as e: raise AttributeError(...) (lines 60-61)
reraised(converted) ==
    IF Raised(converted) THEN Raise("AttributeError", "Invalid values for cooridinate")
    ELSE converted

\* Lines 62-63: the object, once converttotuple has returned.
newcoordinate(converted) ==
    IF Raised(converted) THEN converted
    ELSE Return([t |-> "Coordinate", _row |-> converted.v[1], _column |-> converted.v[2]])

\* Coordinate.__init__(row, column)
Coordinate(row, column) ==
    IF row.t = "str" /\ column = False THEN newcoordinate(converttotuple(row))
    ELSE newcoordinate(reraised(converttotuple(
            PyTuple(<<row, IF column = False THEN None ELSE column>>))))

\* Coordinate.row, Coordinate.column: an Index is a non-empty tuple, so it is
\* always true and the value is returned, None included.
row(coordinate) == coordinate._row.value
column(coordinate) == coordinate._column.value

\* What an f-string writes for an Index value.
format(value) ==
    IF value = None THEN <<"N", "o", "n", "e">>
    ELSE IF value.t = "bool"
    THEN (IF value.v THEN <<"T", "r", "u", "e">> ELSE <<"F", "a", "l", "s", "e">>)
    ELSE str(value.v)

\* Coordinate.toA1string(absolute)
toA1string(coordinate, absolute) ==
    LET letter == get_column_letter(coordinate._column.value)
    IN  IF Raised(letter) THEN letter
        ELSE IF ~absolute
        THEN Return(PyStr(letter.v \o format(coordinate._row.value)))
        ELSE Return(PyStr((IF coordinate._row.absolute THEN <<"$">> ELSE <<>>)
                          \o letter.v
                          \o (IF coordinate._column.absolute THEN <<"$">> ELSE <<>>)
                          \o format(coordinate._row.value)))

----------------------------------------------------------------------------
(* addindices(index1, index2) *)

\* addindices without the sort of line 357: the result takes the first
\* operand's absolute flag.
addindices_unsorted(index1, index2) ==
    IF index1.absolute /\ index2.absolute
    THEN Raise("AttributeError", "Cannot add two Absolute Indices")
    ELSE IF index1.type # index2.type
    THEN Raise("TypeError", "Type mismatch between Indices")
    ELSE IF index1.value = None \/ index2.value = None
    THEN Raise("TypeError", "unsupported operand type(s) for +")
    ELSE LET result == Index(index1.type, PyInt(number(index1.value) + number(index2.value)),
                             index1.absolute)
         IN  IF result.absolute /\ result.value.v <= 0
             THEN Raise("ValueError", "Absolute Reference reduced below 0")
             ELSE Return(result)

\* addindices with the floor of line 367 at < 0 instead of <= 0.
addindices_zero(index1, index2) ==
    IF index1.absolute /\ index2.absolute
    THEN Raise("AttributeError", "Cannot add two Absolute Indices")
    ELSE IF index1.type # index2.type
    THEN Raise("TypeError", "Type mismatch between Indices")
    ELSE LET first == IF index2.absolute THEN index2 ELSE index1
             second == IF index2.absolute THEN index1 ELSE index2
         IN  IF first.value = None \/ second.value = None
             THEN Raise("TypeError", "unsupported operand type(s) for +")
             ELSE LET result == Index(first.type, PyInt(number(first.value) + number(second.value)),
                                      first.absolute)
                  IN  IF result.absolute /\ result.value.v < 0
                      THEN Raise("ValueError", "Absolute Reference reduced below 0")
                      ELSE Return(result)

\* addindices with the floor of line 367 applied only when the operand given
\* first is the absolute one.
addindices_firstfloor(index1, index2) ==
    IF index1.absolute /\ index2.absolute
    THEN Raise("AttributeError", "Cannot add two Absolute Indices")
    ELSE IF index1.type # index2.type
    THEN Raise("TypeError", "Type mismatch between Indices")
    ELSE LET first == IF index2.absolute THEN index2 ELSE index1
             second == IF index2.absolute THEN index1 ELSE index2
         IN  IF first.value = None \/ second.value = None
             THEN Raise("TypeError", "unsupported operand type(s) for +")
             ELSE LET result == Index(first.type, PyInt(number(first.value) + number(second.value)),
                                      first.absolute)
                  IN  IF index1.absolute /\ result.value.v <= 0
                      THEN Raise("ValueError", "Absolute Reference reduced below 0")
                      ELSE Return(result)

addindices(index1, index2) ==
    IF index1.absolute /\ index2.absolute
    THEN Raise("AttributeError", "Cannot add two Absolute Indices")
    ELSE IF index1.type # index2.type
    THEN Raise("TypeError", "Type mismatch between Indices")
    ELSE LET first == IF index2.absolute THEN index2 ELSE index1
             second == IF index2.absolute THEN index1 ELSE index2
         IN  IF first.value = None \/ second.value = None
             THEN Raise("TypeError", "unsupported operand type(s) for +")
             ELSE LET result == Index(first.type, PyInt(number(first.value) + number(second.value)),
                                      first.absolute)
                  IN  IF result.absolute /\ result.value.v <= 0
                      THEN Raise("ValueError", "Absolute Reference reduced below 0")
                      ELSE Return(result)

\* Line 89: the Coordinate of the two sums, once both addindices calls have
\* returned.
sumcoordinate(rowsum, columnsum) ==
    IF Raised(rowsum) THEN rowsum
    ELSE IF Raised(columnsum) THEN columnsum
    ELSE Coordinate(rowsum.v, columnsum.v)

\* Coordinate.__add__ when other is a Coordinate (lines 84-89).
addcoordinates(coordinate, other) ==
    IF (coordinate._row.absolute /\ other._row.absolute)
       \/ (coordinate._column.absolute /\ other._column.absolute)
    THEN Raise("AttributeError", "Cannot add two Absolute references")
    ELSE sumcoordinate(addindices(coordinate._row, other._row),
                       addindices(coordinate._column, other._column))

\* except: pass, then the implicit return None (line 94)
swallowed(outcome) == IF Raised(outcome) THEN Return(None) ELSE outcome

\* Line 93: converted is the outcome of Coordinate(other).
addconverted(coordinate, converted) ==
    IF Raised(converted) THEN Return(None)
    ELSE swallowed(addcoordinates(coordinate, converted.v))

\* Coordinate.__add__(other): anything that is not a Coordinate is converted
\* inside try/except: pass, so every failure there ends in the implicit
\* return None.
__add__(coordinate, other) ==
    IF other.t = "Coordinate" THEN addcoordinates(coordinate, other)
    ELSE addconverted(coordinate, Coordinate(other, False))

----------------------------------------------------------------------------
(* The values the calls are made with *)

\* Index values and integer descriptors range over -MaxValue .. MaxValue; an
\* Index value may also be a bool, which is an int.
MaxValue == 2
Values == (0 - MaxValue)..MaxValue

IntDescriptors == {PyInt(n) : n \in Values}

IndexDescriptors ==
    {Index(type, value, absolute) :
        type \in {"row", "column", "None"},
        value \in {None, PyBool(TRUE), PyBool(FALSE)} \cup IntDescriptors,
        absolute \in BOOLEAN}

\* Single-axis text in relative-offset notation, brackets balanced or not.
RCTokens ==
    {<<L>> \o ob \o str(n) \o cb :
        L \in {"R", "C"}, ob \in {<<>>, <<"[">>}, n \in {-1, 0, 1}, cb \in {<<>>, <<"]">>}}

\* Single-axis text in letter-digit notation, and text of neither notation.
A1Tokens ==
    {<<"A">>, <<"$", "A">>, <<"B">>, <<"a">>, <<"A", "A">>, <<"$", "Z", "Z">>,
     <<"1">>, <<"$", "1">>, <<"2">>, <<"$", "2">>, <<"1", "0">>, <<"0">>}
OtherTokens == {<<>>, <<"$">>, <<"[", "1", "]">>, <<"-", "1">>, <<"A", "1">>, <<"A", "B", "C", "D">>}

\* Single-axis text with a digit or a letter outside ASCII, or a newline.
UnicodeTokens ==
    {<<"U+0661">>, <<"$", "U+FF11", "2">>, <<"C", "U+0662">>, <<"R", "[", "-", "U+0661", "]">>,
     <<"U+0131">>, <<"$", "U+017F">>, <<"U+212A">>, <<"A", "U+0130">>, <<"1", "\n">>, <<"\n">>}

AxisTexts == {PyStr(s) : s \in RCTokens \cup A1Tokens \cup OtherTokens \cup UnicodeTokens}

\* The second element of an (index, absolute) sequence.
Overrides ==
    {PyBool(TRUE), PyBool(FALSE), PyInt(0), PyInt(1), PyInt(2), None,
     PyStr(<<"$">>), PyStr(<<"a", "b", "s", "o", "l", "u", "t", "e">>),
     PyStr(<<"A", "b", "s", "o", "l", "u", "t", "e">>),
     PyStr(<<"A", "B", "S", "O", "L", "U", "T", "E">>),
     PyStr(<<>>), PyStr(<<"x">>), PyStr(<<"0">>)}

\* Descriptors that are not sequences.
PlainDescriptors ==
    {None, PyBool(TRUE), Index("cell", PyInt(1), FALSE)}
        \cup IntDescriptors \cup IndexDescriptors \cup AxisTexts

\* Sequences (index,), (index, absolute), () and one that is too long.
SequenceDescriptors ==
    {PyTuple(<<inner, absolute>>) : inner \in PlainDescriptors, absolute \in Overrides}
        \cup {PyTuple(<<inner>>) : inner \in PlainDescriptors}
        \cup {PyTuple(<<>>), PyTuple(<<PyInt(1), PyBool(TRUE), PyBool(TRUE)>>),
              PyTuple(<<PyTuple(<<PyInt(1), PyBool(TRUE)>>), PyBool(TRUE)>>)}

\* Combined text: both notations over every bracket and $ combination.
RCTexts ==
    {<<"R">> \o ob1 \o str(r) \o cb1 \o <<"C">> \o ob2 \o str(c) \o cb2 :
        ob1 \in {<<>>, <<"[">>}, cb1 \in {<<>>, <<"]">>},
        ob2 \in {<<>>, <<"[">>}, cb2 \in {<<>>, <<"]">>},
        r \in Values, c \in {-1, 1}}
A1Texts ==
    {d1 \o ColumnLetters(c) \o d2 \o str(r) :
        d1 \in {<<>>, <<"$">>}, d2 \in {<<>>, <<"$">>},
        c \in (1..MaxValue) \cup {26, 27}, r \in (0..MaxValue) \cup {10}}
OtherTexts ==
    {<<>>, <<"A">>, <<"1">>, <<"1", "A">>, <<"R", "1">>, <<"r", "1", "c", "1">>, <<"a", "1">>,
     <<"R", "[", "[", "1", "]", "C", "1">>, <<"A", "$", "$", "1">>, <<"A", "-", "1">>,
     <<"A", "B", "C", "D", "1">>, <<"R", "C", "1">>,
     <<"A", "1", "\n">>, <<"$", "B", "$", "2", "\n">>, <<"R", "1", "C", "[", "1", "]", "\n">>,
     <<"A", "1", "\n", "\n">>, <<"\n", "A", "1">>,
     <<"A", "U+FF11">>, <<"$", "U+0131", "$", "U+0661", "0">>, <<"U+212A", "1">>,
     <<"R", "U+0661", "C", "-", "U+0662">>}

CoordinateTexts == {PyStr(s) : s \in RCTexts \cup A1Texts \cup OtherTexts}

\* The axis descriptors Coordinate(row, column) is called with: every kind of
\* descriptor, over fewer values than parseindex is called with.
AxisDescriptors ==
    {None, PyBool(TRUE)} \cup IntDescriptors
        \cup {Index(type, value, absolute) :
                type \in {"row", "column", "None"},
                value \in {None, PyInt(-1), PyInt(1), PyBool(TRUE)},
                absolute \in BOOLEAN}
        \cup {PyStr(s) : s \in {<<"A">>, <<"$", "A">>, <<"1">>, <<"$", "1">>, <<"2">>,
                                <<"R", "1">>, <<"R", "[", "1", "]">>, <<"C", "[", "-", "1", "]">>,
                                <<"C", "[", "1">>, <<"R", "1", "]">>, <<>>, <<"A", "1">>,
                                <<"U+0661">>, <<"U+0131">>}}
        \cup {PyTuple(<<inner, absolute>>) :
                inner \in {PyInt(1), PyStr(<<"A">>), PyStr(<<"1">>)},
                absolute \in {PyBool(TRUE), PyBool(FALSE)}}

\* Coordinates with both values present, as the right-hand side of +.
OtherCoordinates ==
    {[t |-> "Coordinate", _row |-> Index("row", r, ra), _column |-> Index("column", c, ca)] :
        r \in IntDescriptors \cup {PyBool(FALSE)}, ra \in BOOLEAN,
        c \in {PyInt(-1), PyInt(1), PyBool(TRUE)}, ca \in BOOLEAN}

\* What is not a Coordinate, as the right-hand side of +.
OtherDescriptors ==
    {None, PyInt(1), Index("row", PyInt(1), FALSE),
     PyStr(<<"A", "1">>), PyStr(<<"$", "A", "$", "1">>), PyStr(<<"$", "A", "1">>),
     PyStr(<<"A", "$", "1">>), PyStr(<<"R", "-", "2", "C", "-", "2">>),
     PyStr(<<"R", "[", "1", "]", "C", "[", "1", "]">>), PyStr(<<"R", "[", "1", "C", "1">>),
     PyStr(<<"A">>), PyStr(<<"A", "1", "\n">>), PyStr(<<"A", "U+FF11">>),
     PyTuple(<<PyInt(1), PyInt(1)>>), PyTuple(<<PyStr(<<"1">>), PyStr(<<"A">>)>>),
     PyTuple(<<Index("row", PyInt(-1), FALSE), Index("column", PyInt(1), FALSE)>>),
     PyTuple(<<PyInt(1), PyInt(1), PyInt(1)>>)}

----------------------------------------------------------------------------
(* The calls.  self is the Coordinate the last Coordinate(...) call built   *)
(* (None before it, and when it raised); op, args and ret are the last     *)
(* call, its arguments and its outcome.                                    *)

Init == /\ self = None
        /\ op = "start"
        /\ args = <<>>
        /\ ret = Return(None)

\* Coordinate(row) with combined text, or Coordinate(row, column)
Construct(r, c) ==
    /\ op = "start"
    /\ op' = "Coordinate"
    /\ args' = <<r, c>>
    /\ ret' = Coordinate(r, c)
    /\ self' = IF Raised(ret') THEN None ELSE ret'.v

\* parseindex(value)
ParseIndex(value) ==
    /\ op = "start"
    /\ op' = "parseindex"
    /\ args' = <<value>>
    /\ ret' = parseindex(value)
    /\ UNCHANGED self

\* addindices(index1, index2)
AddIndices(index1, index2) ==
    /\ op = "start"
    /\ op' = "addindices"
    /\ args' = <<index1, index2>>
    /\ ret' = addindices(index1, index2)
    /\ UNCHANGED self

\* self.toA1string(absolute)
ToA1String(absolute) ==
    /\ op = "Coordinate"
    /\ self # None
    /\ op' = "toA1string"
    /\ args' = <<PyBool(absolute)>>
    /\ ret' = toA1string(self, absolute)
    /\ UNCHANGED self

\* self + other
Add(other) ==
    /\ op = "Coordinate"
    /\ self # None
    /\ op' = "__add__"
    /\ args' = <<other>>
    /\ ret' = __add__(self, other)
    /\ UNCHANGED self

Next ==
    \/ \E text \in CoordinateTexts : Construct(text, False)
    \/ \E r \in AxisDescriptors, c \in AxisDescriptors : Construct(r, c)
    \/ \E value \in PlainDescriptors \cup SequenceDescriptors : ParseIndex(value)
    \/ \E index1 \in IndexDescriptors, index2 \in IndexDescriptors : AddIndices(index1, index2)
    \/ \E absolute \in BOOLEAN : ToA1String(absolute)
    \/ \E other \in OtherCoordinates \cup OtherDescriptors : Add(other)

Spec == Init /\ [][Next]_vars

----------------------------------------------------------------------------
(* Properties *)

\* A Coordinate whose two Index values are tagged row and column and both
\* carry a value: a single cell.
IsCell(coordinate) ==
    /\ coordinate.t = "Coordinate"
    /\ coordinate._row.type = "row" /\ coordinate._row.value # None
    /\ coordinate._column.type = "column" /\ coordinate._column.value # None

\* text has a $ right before its column letters / right before its row number.
DollarBeforeLetters(text) == At(text, 1) = "$" /\ IsLetter(At(text, 2))
DollarBeforeNumber(text) ==
    \E i \in 1..Len(text) : text[i] = "$" /\ (IsDigit(At(text, i + 1)) \/ At(text, i + 1) = "-")

\* C1: a cell with positive values, rendered by toA1string (absolute True or
\* False) and parsed again by Coordinate(text), is the cell that was rendered.
C1_RoundTrip ==
    (op = "toA1string" /\ IsCell(self)
        /\ self._row.value.t = "int" /\ self._row.value.v > 0
        /\ self._column.value.t = "int" /\ self._column.value.v > 0)
        => (~Raised(ret) /\ Coordinate(ret.v, False) = Return(self))

\* C2: toA1string(True) writes a $ before the column letters exactly when the
\* column Index is absolute and a $ before the row number exactly when the row
\* Index is absolute; toA1string(False) writes no $.
C2_DollarPlacement ==
    (op = "toA1string" /\ IsCell(self) /\ ~Raised(ret))
        => IF args[1].v
           THEN /\ DollarBeforeLetters(ret.v.v) <=> self._column.absolute
                /\ DollarBeforeNumber(ret.v.v) <=> self._row.absolute
           ELSE \A i \in 1..Len(ret.v.v) : ret.v.v[i] # "$"

\* C3: in every Coordinate that Coordinate(...) or + returns, an Index that
\* carries a value is tagged row as the row Index and column as the column
\* Index.
C3_NoUntaggedValue ==
    (op \in {"Coordinate", "__add__"} /\ ~Raised(ret) /\ ret.v.t = "Coordinate")
        => /\ ret.v._row.value # None => ret.v._row.type = "row"
           /\ ret.v._column.value # None => ret.v._column.type = "column"

\* What C4 says of one axis: a and b are the operands' Index values, r the
\* result's.
C4_Axis(a, b, r) ==
    LET sum == number(a.value) + number(b.value)
    IN  /\ (a.absolute # b.absolute /\ sum > 0) => r = Index(a.type, PyInt(sum), TRUE)
        /\ (~a.absolute /\ ~b.absolute) => r = Index(a.type, PyInt(sum), FALSE)

\* C4: for two cells, + raises the double-absolute error whenever both are
\* absolute on the row axis or both on the column axis; otherwise an axis with
\* exactly one absolute operand and a positive sum is absolute with the sum as
\* value, an axis with two relative operands is relative with the sum as
\* value, and the sum is returned whenever no axis with one absolute operand
\* sums to zero or less.
C4_AddCoordinates ==
    (op = "__add__" /\ IsCell(self) /\ IsCell(args[1]))
        => LET other == args[1]
               double == \/ self._row.absolute /\ other._row.absolute
                         \/ self._column.absolute /\ other._column.absolute
               sinks(a, b) == a.absolute # b.absolute /\ number(a.value) + number(b.value) <= 0
           IN  /\ double => ret = Raise("AttributeError", "Cannot add two Absolute references")
               /\ (~double /\ ~Raised(ret))
                    => /\ ret.v.t = "Coordinate"
                       /\ C4_Axis(self._row, other._row, ret.v._row)
                       /\ C4_Axis(self._column, other._column, ret.v._column)
               /\ (~double /\ ~sinks(self._row, other._row)
                           /\ ~sinks(self._column, other._column)) => ~Raised(ret)

\* A sum of two cells, one of them absolute on the row axis, was returned and
\* is absolute on the row axis.
C4_Witness ==
    /\ op = "__add__" /\ IsCell(self) /\ IsCell(args[1])
    /\ self._row.absolute # args[1]._row.absolute
    /\ ~self._column.absolute /\ ~args[1]._column.absolute
    /\ ~Raised(ret) /\ ret.v._row.absolute /\ ~ret.v._column.absolute

\* C5: addindices on two Index values of one axis, exactly one of them
\* absolute, raises the invalid-absolute-result error exactly when the sum is
\* <= 0; with both relative it returns the relative Index of the sum, whatever
\* the sum is; and no absolute Index it returns has a value below 1.
C5_AddIndices ==
    op = "addindices"
        => LET a == args[1]
               b == args[2]
               sound == a.type = b.type /\ a.value # None /\ b.value # None
               invalid == ret = Raise("ValueError", "Absolute Reference reduced below 0")
           IN  /\ (sound /\ a.absolute # b.absolute)
                    => /\ invalid <=> number(a.value) + number(b.value) <= 0
                       /\ ~invalid => ~Raised(ret)
               /\ (sound /\ ~a.absolute /\ ~b.absolute)
                    => ret = Return(Index(a.type, PyInt(number(a.value) + number(b.value)), FALSE))
               /\ (~Raised(ret) /\ ret.v.absolute) => ret.v.value.v >= 1

\* addindices on absolute 1 and relative -2 raised the invalid-absolute-result
\* error.
C5_Witness ==
    /\ op = "addindices"
    /\ args = <<Index("row", PyInt(1), TRUE), Index("row", PyInt(-2), FALSE)>>
    /\ ret = Raise("ValueError", "Absolute Reference reduced below 0")

\* C6: a right-hand operand that is not a Coordinate and that Coordinate(...)
\* turns into a cell gives the outcome of adding that cell: the same sum, or
\* the same error raised.
C6_RawOperand ==
    (op = "__add__" /\ IsCell(self) /\ args[1].t # "Coordinate"
        /\ ~Raised(Coordinate(args[1], False))
        /\ IsCell(Coordinate(args[1], False).v))
        => ret = addcoordinates(self, Coordinate(args[1], False).v)

\* C7: Coordinate(None, n) and Coordinate(n, None), n an integer, both
\* succeed; the first has column n and no row, the second row n and no column.
C7_SingleAxis ==
    /\ (op = "Coordinate" /\ args[1] = None /\ args[2].t = "int")
        => ~Raised(ret) /\ row(ret.v) = None /\ column(ret.v) = args[2]
    /\ (op = "Coordinate" /\ args[1].t = "int" /\ args[2] = None)
        => ~Raised(ret) /\ row(ret.v) = args[1] /\ column(ret.v) = None

\* Coordinate(None, 2) returned a Coordinate.
C7_Witness ==
    /\ op = "Coordinate" /\ args = <<None, PyInt(2)>> /\ ~Raised(ret)
    /\ column(self) = PyInt(2)

\* C8 as stated: Coordinate("A", "A") does not raise; the first stays the row
\* Index and the second becomes the column Index.
C8_Original ==
    (op = "Coordinate" /\ args = <<PyStr(<<"A">>), PyStr(<<"A">>)>>)
        => /\ ~Raised(ret)
           /\ ret.v._row.type = "row" /\ ret.v._column.type = "column"

\* C8 as amended: two text descriptors that both normalize to a relative row
\* Index, such as ("1", "1"), do not raise: the first is the row Index and the
\* second, retagged, the column Index.  Two that both normalize to a column
\* Index, such as ("A", "A"), raise.
C8_DuplicateAxis ==
    (op = "Coordinate" /\ args[1].t = "str" /\ args[2].t = "str"
        /\ ~Raised(parseindex(args[1])) /\ ~Raised(parseindex(args[2])))
        => LET first == parseindex(args[1]).v
               second == parseindex(args[2]).v
           IN  /\ (first.type = "row" /\ second.type = "row"
                     /\ ~first.absolute /\ ~second.absolute)
                    => /\ ~Raised(ret)
                       /\ ret.v._row = first
                       /\ ret.v._column = Index("column", second.value, second.absolute)
               /\ (first.type = "column" /\ second.type = "column")
                    => ret = Raise("AttributeError", "Invalid values for cooridinate")

\* Coordinate("1", "1") returned row 1, column 1.
C8_Witness ==
    /\ op = "Coordinate" /\ args = <<PyStr(<<"1">>), PyStr(<<"1">>)>>
    /\ ~Raised(ret) /\ self._row.type = "row" /\ self._column.type = "column"
    /\ row(self) = PyInt(1) /\ column(self) = PyInt(1)

\* C9: a positive integer descriptor normalizes to an absolute Index and a
\* negative one to a relative Index, so no Coordinate built from integer
\* descriptors holds an absolute Index with a negative value.
C9_NegativeIsRelative ==
    /\ (op = "parseindex" /\ args[1].t = "int" /\ ~Raised(ret))
        => /\ args[1].v > 0 => ret.v.absolute
           /\ args[1].v < 0 => ~ret.v.absolute
    /\ (op = "Coordinate" /\ args[1].t = "int" /\ args[2].t = "int" /\ ~Raised(ret))
        => /\ ~(ret.v._row.absolute /\ ret.v._row.value.v < 0)
           /\ ~(ret.v._column.absolute /\ ret.v._column.value.v < 0)

\* The row part and the column part of combined relative-offset text: the
\* column part starts at the C.
ColumnStart(text) == CHOOSE i \in 1..Len(text) : IsChar(text[i], "C")
RowPart(text) == Slice(text, 1, ColumnStart(text))
ColumnPart(text) == Slice(text, ColumnStart(text), Len(text) + 1)
Opens(part) == \E i \in 1..Len(part) : part[i] = "["
Closes(part) == \E i \in 1..Len(part) : part[i] = "]"
Unbalanced(part) == Opens(part) # Closes(part)
Missing(part) == IF Opens(part) THEN "missing ]" ELSE "missing ["

\* C10: Coordinate(text) on R<row>C<col> raises the malformed-bracket error
\* exactly when an axis has one bracket without the other, naming the bracket
\* that axis lacks (the row's when the row is unbalanced); otherwise it
\* returns, and each axis is absolute exactly when it has both brackets.
C10_Brackets ==
    (op = "Coordinate" /\ args[2] = False /\ args[1].t = "str" /\ args[1].v \in RCTexts)
        => LET rowpart == RowPart(args[1].v)
               columnpart == ColumnPart(args[1].v)
           IN  IF Unbalanced(rowpart) THEN ret = Raise("SyntaxError", Missing(rowpart))
               ELSE IF Unbalanced(columnpart) THEN ret = Raise("SyntaxError", Missing(columnpart))
               ELSE /\ ~Raised(ret)
                    /\ ret.v._row.absolute <=> (Opens(rowpart) /\ Closes(rowpart))
                    /\ ret.v._column.absolute <=> (Opens(columnpart) /\ Closes(columnpart))

\* Coordinate("R[1C1") raised the error naming the missing ].
C10_Witness ==
    /\ op = "Coordinate"
    /\ args = <<PyStr(<<"R", "[", "1", "C", "1">>), False>>
    /\ ret = Raise("SyntaxError", "missing ]")

\* Combined letter-digit text [$]<letters>[$]<digits>, the letters being A to
\* Z in either case and the digits decimal digits of any script: where its
\* letters start, where they end, and where its digits start.
LettersStart(text) == IF At(text, 1) = "$" THEN 2 ELSE 1
LettersEnd(text) == SkipLetters(text, LettersStart(text))
DigitsStart(text) == IF At(text, LettersEnd(text)) = "$" THEN LettersEnd(text) + 1 ELSE LettersEnd(text)
IsA1Text(text) ==
    /\ LettersEnd(text) > LettersStart(text)
    /\ \A i \in LettersStart(text)..(LettersEnd(text) - 1) :
            IndexOf(Upper, text[i]) # 0 \/ IndexOf(Lower, text[i]) # 0
    /\ SkipDigits(text, DigitsStart(text)) > DigitsStart(text)
    /\ SkipDigits(text, DigitsStart(text)) = Len(text) + 1

\* What C11 expects of Coordinate(text): a column Index whose value is the
\* base-26 number of the letters and a row Index whose value is the digits,
\* the column absolute exactly when a $ precedes the letters and the row
\* exactly when a $ precedes the digits.
LetterDigitCell(text) ==
    [t |-> "Coordinate",
     _row |-> Index("row",
                    PyInt(DigitsValue(Slice(text, DigitsStart(text), Len(text) + 1))),
                    At(text, LettersEnd(text)) = "$"),
     _column |-> Index("column",
                       PyInt(LettersValue(Slice(text, LettersStart(text), LettersEnd(text)))),
                       At(text, 1) = "$")]

AbsoluteAliases ==
    {<<"$">>, <<"a", "b", "s", "o", "l", "u", "t", "e">>, <<"A", "b", "s", "o", "l", "u", "t", "e">>,
     <<"A", "B", "S", "O", "L", "U", "T", "E">>}

\* What the second element of an (index, absolute) sequence asks for.
RequestsRelative(absolute) == absolute \in {PyBool(FALSE), PyInt(0), PyStr(<<>>)}
RequestsAbsolute(absolute) ==
    \/ absolute \in {PyBool(TRUE), PyInt(1)}
    \/ absolute.t = "str" /\ absolute.v \in AbsoluteAliases

\* C12: parseindex((inner, override)), inner normalizing to an absolute Index
\* and override being False, 0 or "", raises the contradiction error, so every
\* integer with such an override is rejected; whenever the call returns, the
\* result has the type and value of the normalized inner, and it is absolute
\* exactly when the override asks for absolute.
C12_Override ==
    (op = "parseindex" /\ args[1].t = "seq" /\ Len(args[1].v) = 2
        /\ ~Raised(parseindex(args[1].v[1])))
        => LET inner == parseindex(args[1].v[1]).v
               absolute == args[1].v[2]
               contradicts == Raise("ValueError", "Coordinate part's second index contradicts the first")
           IN  /\ (inner.absolute /\ RequestsRelative(absolute)) => ret = contradicts
               /\ (args[1].v[1].t = "int" /\ RequestsRelative(absolute)) => ret = contradicts
               /\ ~Raised(ret)
                    => /\ ret.v.type = inner.type /\ ret.v.value = inner.value
                       /\ ret.v.absolute <=> RequestsAbsolute(absolute)
                       /\ ~ret.v.absolute <=> RequestsRelative(absolute)

\* parseindex(("$A", "")) raised the contradiction error.
C12_Witness ==
    /\ op = "parseindex" /\ args = <<PyTuple(<<PyStr(<<"$", "A">>), PyStr(<<>>)>>)>>
    /\ ret = Raise("ValueError", "Coordinate part's second index contradicts the first")

\* C13: for x that normalizes, (x, "$") and (x, "absolute") in any letter case
\* return what (x, True) returns, the Index of x made absolute; for x that
\* normalizes to a relative Index, (x, "") returns what (x, False) returns, the
\* Index of x; and any other string as second element raises the
\* unknown-string error.
C13_Aliases ==
    (op = "parseindex" /\ args[1].t = "seq" /\ Len(args[1].v) = 2
        /\ args[1].v[2].t = "str" /\ ~Raised(parseindex(args[1].v[1])))
        => LET x == args[1].v[1]
               inner == parseindex(x).v
               absolute == args[1].v[2]
           IN  IF RequestsAbsolute(absolute)
               THEN /\ ret = parseindex(PyTuple(<<x, PyBool(TRUE)>>))
                    /\ ret = Return(Index(inner.type, inner.value, TRUE))
               ELSE IF absolute = PyStr(<<>>)
               THEN ~inner.absolute
                        => /\ ret = parseindex(PyTuple(<<x, PyBool(FALSE)>>))
                           /\ ret = Return(inner)
               ELSE ret = Raise("ValueError", "Coordinate part's second index is an unknown string")

\* parseindex(("A", "Absolute")) returned the absolute column 1.
C13_Witness ==
    /\ op = "parseindex"
    /\ args = <<PyTuple(<<PyStr(<<"A">>), PyStr(<<"A", "b", "s", "o", "l", "u", "t", "e">>)>>)>>
    /\ ret = Return(Index("column", PyInt(1), TRUE))

\* C14: self + (row, column), where Coordinate(row, column) is a cell that can
\* be added to self, returns what self + Coordinate(row, column) returns.
C14_SequenceOperand ==
    (op = "__add__" /\ IsCell(self) /\ args[1].t = "seq" /\ Len(args[1].v) = 2
        /\ ~Raised(Coordinate(args[1].v[1], args[1].v[2]))
        /\ IsCell(Coordinate(args[1].v[1], args[1].v[2]).v)
        /\ ~Raised(addcoordinates(self, Coordinate(args[1].v[1], args[1].v[2]).v)))
        => ret = addcoordinates(self, Coordinate(args[1].v[1], args[1].v[2]).v)

\* The Coordinate of a row Index and a column Index.
Cell(rowindex, columnindex) == [t |-> "Coordinate", _row |-> rowindex, _column |-> columnindex]

\* C15: Coordinate(a, b) with a and b both normalizing to row Index values
\* that carry a value: when exactly one is absolute, that one is the row Index
\* unchanged and the other one, retagged column, the column Index, whichever
\* comes first; when neither is absolute the first is the row Index and the
\* second, retagged, the column Index; when both are absolute the call raises.
C15_RowAsymmetry ==
    (op = "Coordinate" /\ args[2] # False
        /\ ~Raised(parseindex(args[1])) /\ ~Raised(parseindex(args[2]))
        /\ parseindex(args[1]).v.type = "row" /\ parseindex(args[2]).v.type = "row"
        /\ parseindex(args[1]).v.value # None /\ parseindex(args[2]).v.value # None)
        => LET first == parseindex(args[1]).v
               second == parseindex(args[2]).v
           IN  IF first.absolute /\ second.absolute
               THEN ret = Raise("AttributeError", "Invalid values for cooridinate")
               ELSE IF second.absolute
               THEN ret = Return(Cell(second, Index("column", first.value, first.absolute)))
               ELSE ret = Return(Cell(first, Index("column", second.value, second.absolute)))

\* C16: parseindex on R<n> or C<n> text whose integer has one bracket without
\* the other raises the malformed-bracket error naming the missing bracket.
C16_SingleAxisBrackets ==
    (op = "parseindex" /\ args[1].t = "str" /\ args[1].v \in RCTokens /\ Unbalanced(args[1].v))
        => ret = Raise("SyntaxError", Missing(args[1].v))

\* The integer of a single-axis token R<n>, R[<n>], C<n> or C[<n>], and the
\* axis its letter names.
TokenValue(token) ==
    int(Slice(token, IF At(token, 2) = "[" THEN 3 ELSE 2,
              IF token[Len(token)] = "]" THEN Len(token) ELSE Len(token) + 1))
TokenAxis(token) == IF IsChar(token[1], "R") THEN "row" ELSE "column"
IsToken(value) == value.t = "str" /\ value.v \in RCTokens /\ ~Unbalanced(value.v)

\* C17: parseindex on R<n> or R[<n>] returns a row Index with value n and on
\* C<n> or C[<n>] a column Index with value n; and Coordinate(R<n>, C<m>)
\* returns the cell with row n and column m.
C17_AxisTokens ==
    /\ (op = "parseindex" /\ IsToken(args[1]))
        => /\ ~Raised(ret)
           /\ ret.v.type = TokenAxis(args[1].v)
           /\ ret.v.value = PyInt(TokenValue(args[1].v))
    /\ (op = "Coordinate" /\ IsToken(args[1]) /\ IsToken(args[2])
            /\ TokenAxis(args[1].v) = "row" /\ TokenAxis(args[2].v) = "column")
        => /\ ~Raised(ret) /\ IsCell(ret.v)
           /\ row(ret.v) = PyInt(TokenValue(args[1].v))
           /\ column(ret.v) = PyInt(TokenValue(args[2].v))

\* Two outcomes are the same error kind, or the same returned value.
SameOutcome(one, other) ==
    IF Raised(one) THEN Raised(other) /\ one.exc = other.exc ELSE one = other

\* C18: addindices(a, b) and addindices(b, a) raise the same kind of error or
\* return equal Index values; and for two cells x and y, x + y and y + x raise
\* the same kind of error or return equal Coordinates.
C18_Commutes ==
    /\ op = "addindices" => SameOutcome(ret, addindices(args[2], args[1]))
    /\ (op = "__add__" /\ IsCell(self) /\ IsCell(args[1]))
        => SameOutcome(ret, __add__(args[1], self))

\* addindices on relative -1 and absolute 2, the absolute one second, returned
\* the absolute 1.
C18_Witness ==
    /\ op = "addindices"
    /\ args = <<Index("column", PyInt(-1), FALSE), Index("column", PyInt(2), TRUE)>>
    /\ ret = Return(Index("column", PyInt(1), TRUE))
====
